---- MODULE Spec2Model ----
(***************************************************************************)
(* The dependency-injection Container of packages/core (container.ts) and  *)
(* the metadata readers of decorators/service.ts, as a state machine.      *)
(* One action per public method of Container; the resolution engine        *)
(* (resolve / tryResolve and the loops inside it) is a family of recursive *)
(* operators over a record `c` that holds the container's four fields.     *)
(***************************************************************************)
EXTENDS Integers, Sequences, FiniteSets, TLC

VARIABLES
  instances,               \* Container.instances: Map<Token, any>
  providers,               \* Container.providers: Map<Token, Provider>, in insertion order
  requestScopedInstances,  \* Container.requestScopedInstances: Map<string, Map<Token, any>>
  requestId,               \* Container.requestId: string | null
  app,                     \* the application under test: its register calls, tokens, request ids
  last,                    \* the last call of the public API and what it gave back
  seen,                    \* per token: first value handed out since its last register / clear
  win                      \* per token: first value handed out since the last start/end/clear

vars == <<instances, providers, requestScopedInstances, requestId, app, last, seen, win>>

----------------------------------------------------------------------------
(* Bounds of the model *)

MaxInst == 3     \* objects of one class alive (referenced from the state) at one time
MaxDepth == 3    \* nesting of resolve calls the call stack holds

----------------------------------------------------------------------------
(* Values, tokens, scopes *)

Undefined == [kind |-> "undefined"]

StrVal(s) == [kind |-> "string", s |-> s]

BoolVal(b) == [kind |-> "boolean", b |-> b]

ClassTok(n) == [kind |-> "class", name |-> n]

StrTok(s) == [kind |-> "string", name |-> s]

\* Symbol(s)
SymTok(s) == [kind |-> "symbol", name |-> s]

\* a class of another module that bears the name n
ClassIn(module, n) == [kind |-> "class", name |-> n, module |-> module]

Transient == "TRANSIENT"

Singleton == "SINGLETON"

Request == "REQUEST"

Unset == "unset"

NoRequest == "<null>"

EmptyMap == [t \in {} |-> Undefined]

Put(m, k, v) == [x \in (DOMAIN m) \cup {k} |-> IF x = k THEN v ELSE m[x]]

----------------------------------------------------------------------------
(* Decorator metadata of the classes the container is exercised with *)

NoMeta ==
  [injectable |-> FALSE, scope |-> Unset, eager |-> FALSE,
   deps |-> <<>>, optional |-> <<>>, properties |-> <<>>, paramtypes |-> <<>>]

Injectable(scope, eager, deps, optional) ==
  [injectable |-> TRUE, scope |-> scope, eager |-> eager,
   deps |-> deps, optional |-> optional, properties |-> <<>>, paramtypes |-> <<>>]

\* @Inject(token) on constructor parameters: the tokens land under 'nexus:paramtypes'
Inject(meta, tokens) == [meta EXCEPT !.paramtypes = tokens]

\* @Inject(token) on a property: { key, token } lands under 'nexus:properties';
\* `optional` tells whether the property also carries @Optional()
Property(key, token, optional) == [key |-> key, token |-> token, optional |-> optional]

Properties(meta, props) == [meta EXCEPT !.properties = props]

Meta(cls) ==
  CASE cls = "Logger"      -> Injectable(Singleton, FALSE, <<>>, <<>>)
    [] cls = "Session"     -> Injectable(Request, FALSE, <<>>, <<>>)
    [] cls = "Nonce"       -> Injectable(Transient, FALSE, <<>>, <<>>)
    [] cls = "UserService" -> Injectable(Singleton, FALSE,
                                <<ClassTok("Logger"), ClassTok("Session")>>, <<TRUE, FALSE>>)
    [] cls = "Startup"     -> Injectable(Singleton, TRUE, <<ClassTok("Logger")>>, <<>>)
    [] cls = "legacy/Logger" -> Injectable(Singleton, FALSE, <<>>, <<>>)
    \* @Inject(Logger) @Optional() logger?: Logger;  @Inject(Session) session: Session
    [] cls = "Report"      -> Properties(Injectable(Singleton, FALSE, <<>>, <<>>),
                                <<Property("logger", ClassTok("Logger"), TRUE),
                                  Property("session", ClassTok("Session"), FALSE)>>)
    [] cls = "Ping"        -> Injectable(Singleton, FALSE, <<ClassTok("Pong")>>, <<>>)
    [] cls = "Pong"        -> Injectable(Singleton, FALSE, <<ClassTok("Ping")>>, <<>>)
    \* constructor(@Inject('API_KEY') transport: Logger)
    [] cls = "Mailer"      -> Inject(Injectable(Singleton, FALSE, <<ClassTok("Logger")>>, <<>>),
                                     <<StrTok("API_KEY")>>)
    [] OTHER               -> NoMeta

isInjectable(cls) == Meta(cls).injectable

getInjectableOptions(cls) == Meta(cls)

getDependencies(cls) == Meta(cls).deps

OptionalFlag(cls, i) ==
  IF i \in DOMAIN Meta(cls).optional THEN Meta(cls).optional[i] ELSE FALSE

----------------------------------------------------------------------------
(* Providers *)

NoProvider == [type |-> "none"]

UseClass(cls, scope, eager) ==
  [type |-> "class", useClass |-> cls, scope |-> scope, eager |-> eager]

UseValue(v) == [type |-> "value", useValue |-> v, scope |-> Unset, eager |-> FALSE]

UseFactory(name, deps) ==
  [type |-> "factory", useFactory |-> name, deps |-> deps, scope |-> Unset, eager |-> FALSE]

Bare(cls) == UseClass(cls, Unset, FALSE)

Reg(t, p) == [token |-> t, provider |-> p]

App(regs, tokens, ids, watch) ==
  [regs |-> regs, tokens |-> tokens, ids |-> ids, watch |-> watch]

\* a singleton next to a transient class
ScopesApp ==
  App({ Reg(ClassTok("Logger"), Bare("Logger")),
        Reg(ClassTok("Nonce"), Bare("Nonce")) },
      { ClassTok("Logger"), ClassTok("Nonce") },
      { "r1" }, {})

\* a token registered again with another provider (a mock swapped for the class)
SwapApp ==
  App({ Reg(ClassTok("Logger"), UseValue(StrVal("mock"))),
        Reg(ClassTok("Logger"), Bare("Logger")),
        Reg(ClassTok("Logger"), UseClass("Logger", Transient, FALSE)) },
      { ClassTok("Logger") },
      { "r1" }, { ClassTok("Logger") })

\* a request-scoped class; request ids that are falsy or collide with the default bucket
IdsApp ==
  App({ Reg(ClassTok("Session"), Bare("Session")),
        Reg(ClassTok("Session"), UseValue(StrVal("mock"))) },
      { ClassTok("Session") },
      { "", "default", "r1" }, { ClassTok("Session") })

\* constructor injection with an optional and a required parameter
DepsApp ==
  App({ Reg(ClassTok("Logger"), Bare("Logger")),
        Reg(ClassTok("Logger"), Bare("Plain")),
        Reg(ClassTok("Session"), Bare("Session")),
        Reg(ClassTok("UserService"), Bare("UserService")) },
      { ClassTok("UserService"), ClassTok("Session") },
      {}, {})

\* eager providers
EagerApp ==
  App({ Reg(ClassTok("Logger"), Bare("Logger")),
        Reg(ClassTok("Startup"), Bare("Startup")),
        Reg(StrTok("LOG"), UseClass("Logger", Unset, TRUE)) },
      { ClassTok("Startup"), StrTok("LOG") },
      {}, {})

\* a factory provider, a class that is not injectable, a class looked up by its name
ProvidersApp ==
  App({ Reg(StrTok("CONFIG"), UseFactory("fetchConfig", <<ClassTok("Logger")>>)),
        Reg(ClassTok("Logger"), Bare("Logger")),
        Reg(ClassTok("Plain"), Bare("Plain")) },
      { StrTok("CONFIG"), ClassTok("Plain"), StrTok("Logger") },
      {}, {})

\* two classes whose constructors need each other
CycleApp ==
  App({ Reg(ClassTok("Ping"), Bare("Ping")),
        Reg(ClassTok("Pong"), Bare("Pong")) },
      { ClassTok("Ping"), ClassTok("Pong") },
      {}, {})

\* a value provider, and a class whose constructor parameter carries @Inject
InjectApp ==
  App({ Reg(StrTok("API_KEY"), UseValue(StrVal("secret"))),
        Reg(ClassTok("Logger"), Bare("Logger")),
        Reg(ClassTok("Mailer"), Bare("Mailer")) },
      { StrTok("API_KEY"), ClassTok("Mailer") },
      { "r1" }, {})

\* a factory without deps, resolved in and out of a request
FactoryApp ==
  App({ Reg(StrTok("SETTINGS"), UseFactory("loadSettings", <<>>)) },
      { StrTok("SETTINGS") },
      { "r1" }, { StrTok("SETTINGS") })

\* two classes named Logger, and the string "Logger" registered or not
NamesApp ==
  App({ Reg(ClassIn("legacy", "Logger"), Bare("legacy/Logger")),
        Reg(ClassTok("Logger"), Bare("Logger")),
        Reg(StrTok("Logger"), UseValue(StrVal("exact"))) },
      { StrTok("Logger"), StrTok("logger"), SymTok("Logger") },
      {}, {})

\* a class with an optional and a required injected property
PropsApp ==
  App({ Reg(ClassTok("Logger"), Bare("Logger")),
        Reg(ClassTok("Session"), Bare("Session")),
        Reg(ClassTok("Report"), Bare("Report")) },
      { ClassTok("Report") },
      {}, {})

\* a singleton that takes a request-scoped dependency, resolved in several requests
CaptiveApp ==
  App({ Reg(ClassTok("Session"), Bare("Session")),
        Reg(ClassTok("UserService"), Bare("UserService")) },
      { ClassTok("UserService"), ClassTok("Session") },
      { "", "default", "r1" }, {})

Apps ==
  { ScopesApp, SwapApp, IdsApp, DepsApp, EagerApp, ProvidersApp,
    CycleApp, InjectApp, FactoryApp, NamesApp, PropsApp, CaptiveApp }

Tokens ==
  UNION { a.tokens : a \in Apps } \cup { r.token : r \in UNION { a.regs : a \in Apps } }

----------------------------------------------------------------------------
(* The container as a value: the four fields of Container; `made`, the     *)
(* objects constructed during the current call; `used`, the identities of  *)
(* the objects alive; `full`, set when a call needs more than MaxInst      *)
(* objects of one class. An object is named by its class and the smallest  *)
(* number no living object of the class bears.                             *)

Ret(c, v) == [c |-> c, val |-> v, err |-> "none"]

Throw(c, e) == [c |-> c, val |-> Undefined, err |-> e]

\* `this.requestId || 'default'` and `if (this.requestId)`: null and "" are falsy
Falsy(id) == id = NoRequest \/ id = ""

ActiveRequestId(c) == IF Falsy(c.requestId) THEN "default" ELSE c.requestId

\* the bucket replaced on every call (the `has` test of line 96 left out)
EnsureBucketAlwaysNew(c, rid) ==
  [c EXCEPT !.requestScopedInstances = Put(@, rid, EmptyMap)]

EnsureBucket(c, rid) ==
  IF rid \in DOMAIN c.requestScopedInstances
  THEN c
  ELSE [c EXCEPT !.requestScopedInstances = Put(@, rid, EmptyMap)]

HasExact(c, token) == \E i \in DOMAIN c.providers : c.providers[i].key = token

\* `typeof key === 'function' && key.name === token`: a symbol equals no string
NameMatches(key, token) ==
  key.kind = "class" /\ token.kind = "string" /\ key.name = token.name

\* the name fallback taking the last class of that name
getProviderLastMatch(c, token) ==
  IF HasExact(c, token)
  THEN c.providers[CHOOSE i \in DOMAIN c.providers : c.providers[i].key = token].provider
  ELSE IF \E i \in DOMAIN c.providers : NameMatches(c.providers[i].key, token)
       THEN LET lastOne == CHOOSE i \in DOMAIN c.providers :
                             /\ NameMatches(c.providers[i].key, token)
                             /\ \A j \in (i + 1)..Len(c.providers) :
                                  ~NameMatches(c.providers[j].key, token)
            IN c.providers[lastOne].provider
       ELSE NoProvider

getProvider(c, token) ==
  IF HasExact(c, token)
  THEN c.providers[CHOOSE i \in DOMAIN c.providers : c.providers[i].key = token].provider
  ELSE IF \E i \in DOMAIN c.providers : NameMatches(c.providers[i].key, token)
       THEN LET first == CHOOSE i \in DOMAIN c.providers :
                           /\ NameMatches(c.providers[i].key, token)
                           /\ \A j \in 1..(i - 1) : ~NameMatches(c.providers[j].key, token)
            IN c.providers[first].provider
       ELSE NoProvider

getProviderOptions(c, token) ==
  LET provider == getProvider(c, token)
  IN IF provider # NoProvider /\ provider.type = "class"
     THEN getInjectableOptions(provider.useClass)
     ELSE NoMeta

\* Map.set on the provider table: an existing key keeps its place
SetProvider(c, token, provider) ==
  IF HasExact(c, token)
  THEN [c EXCEPT !.providers =
          [i \in DOMAIN @ |-> IF @[i].key = token
                              THEN [key |-> token, provider |-> provider] ELSE @[i]]]
  ELSE [c EXCEPT !.providers = Append(@, [key |-> token, provider |-> provider])]

\* `new ctor(...args)` and `useFactory(...deps)`: a fresh object each call
NewObject(c, cls, args) ==
  LET free == { i \in 1..MaxInst : <<cls, i>> \notin c.used }
      id == IF free = {} THEN 0 ELSE CHOOSE i \in free : \A j \in free : i <= j
      obj == [kind |-> "object", cls |-> cls, id |-> id, args |-> args, props |-> EmptyMap]
  IN Ret([c EXCEPT !.used = @ \cup {<<cls, id>>}, !.full = @ \/ (free = {}),
                   !.made = Append(@, obj)], obj)

\* lines 190-195: store the instance by the scope of the class metadata
StoreByScope(c, token, scope, rid, instance) ==
  IF scope = Singleton
  THEN [c EXCEPT !.instances = Put(@, token, instance)]
  ELSE IF scope = Request
       THEN [c EXCEPT !.requestScopedInstances[rid] = Put(@, token, instance)]
       ELSE c

\* lines 199-205 left out: nothing is mirrored
MirrorNever(c, token, provider, rid, instance) == c

\* lines 199-205: mirror into the active bucket unless the descriptor says Transient
Mirror(c, token, provider, rid, instance) ==
  IF provider.scope # Transient
  THEN [c EXCEPT !.requestScopedInstances[rid] = Put(@, token, instance)]
  ELSE c

\* no catch: the error leaves tryResolve
CatchNothing(r) == r

\* the catch of tryResolve (lines 208-211): log, return undefined
Catch(r) == IF r.err # "none" THEN Ret(r.c, Undefined) ELSE r

\* isOptional(ctor, key) of service.ts reads the parameter flags with the property key
KeyIndex(key) == CASE key = "0" -> 1 [] key = "1" -> 2 [] OTHER -> 0

isOptional(cls, key) == OptionalFlag(cls, KeyIndex(key))

\* @Optional ignored: every position is required
OptionalNever(optionalParams, i) == FALSE

\* `if (!isOptional) throw error` left out: every position is optional
OptionalAlways(optionalParams, i) == TRUE

OptionalAt(optionalParams, i) ==
  IF i \in DOMAIN optionalParams THEN optionalParams[i] ELSE FALSE

RECURSIVE TryBody(_, _, _)
RECURSIVE resolve(_, _, _)
RECURSIVE ResolveParams(_, _, _, _, _, _)
RECURSIVE InjectProperties(_, _, _, _, _)

tryResolve(c, token, d) == Catch(TryBody(c, token, d))

\* the result of tryResolve handed on as it is (the test of lines 80-82 left out)
CheckedNothing(r) == r

\* lines 78-84: an undefined result of tryResolve is an error of resolve
Checked(r) == IF r.val = Undefined THEN Throw(r.c, "Unresolvable") ELSE r

\* resolve without its provider check (lines 74-77 left out)
resolveUnchecked(c, token, d) == Checked(tryResolve(c, token, d))

\* lines 73-85
resolve(c, token, d) ==
  IF getProvider(c, token) = NoProvider
  THEN Throw(c, "NotRegistered")
  ELSE Checked(tryResolve(c, token, d))

\* lines 152-163: r is the outcome of resolving position i
ParamResolved(r, paramTypes, optionalParams, i, args, d) ==
  IF r.err = "none"
  THEN ResolveParams(r.c, paramTypes, optionalParams, i + 1, Append(args, r.val), d)
  ELSE IF OptionalAt(optionalParams, i)
       THEN ResolveParams(r.c, paramTypes, optionalParams, i + 1,
                          Append(args, Undefined), d)
       ELSE [c |-> r.c, args |-> args, err |-> r.err]

\* lines 149-164 (and the deps.map of line 130, where no position is optional)
ResolveParams(c, paramTypes, optionalParams, i, args, d) ==
  IF i > Len(paramTypes)
  THEN [c |-> c, args |-> args, err |-> "none"]
  ELSE ParamResolved(resolve(c, paramTypes[i], d + 1),
                     paramTypes, optionalParams, i, args, d)

\* lines 177-186: r is the outcome of tryResolve for property p
PropertyResolved(r, cls, k, p, instance, d) ==
  IF r.val = Undefined
  THEN IF isOptional(cls, p.key)
       THEN InjectProperties(r.c, cls, k + 1, instance, d)
       ELSE Throw(r.c, "MissingProperty")
  ELSE InjectProperties(r.c, cls, k + 1,
                        [instance EXCEPT !.props = Put(@, p.key, r.val)], d)

\* lines 169-188
InjectProperties(c, cls, k, instance, d) ==
  IF k > Len(Meta(cls).properties)
  THEN Ret(c, instance)
  ELSE PropertyResolved(tryResolve(c, Meta(cls).properties[k].token, d + 1),
                        cls, k, Meta(cls).properties[k], instance, d)

\* line 143: `options.scope || InjectScope.Singleton`
ScopeOf(options) == IF options.scope = Unset THEN Singleton ELSE options.scope

\* lines 190-195: q is the instance after property injection
Stored(q, token, scope, rid) ==
  IF q.err # "none"
  THEN q
  ELSE Ret(StoreByScope(q.c, token, scope, rid, q.val), q.val)

\* lines 169-188: n is the object `new` returned
Injected(n, ctor, d) == InjectProperties(n.c, ctor, 1, n.val, d)

\* lines 167-195: a is the outcome of the parameter loop
Construct(a, token, ctor, scope, rid, d) ==
  IF a.err # "none"
  THEN Throw(a.c, a.err)
  ELSE Stored(Injected(NewObject(a.c, ctor, a.args), ctor, d), token, scope, rid)

\* lines 133-196: the class branch
ResolveClass(c, token, ctor, rid, d) ==
  IF ~isInjectable(ctor)
  THEN Throw(c, "NotInjectable")
  ELSE Construct(ResolveParams(c, getDependencies(ctor), Meta(ctor).optional, 1, <<>>, d),
                 token, ctor, ScopeOf(getInjectableOptions(ctor)), rid, d)

\* the factory called whatever became of its deps
CallFactoryAnyway(a, provider) == NewObject(a.c, provider.useFactory, a.args)

\* lines 129-131: a is the outcome of resolving the factory's deps
CallFactory(a, provider) ==
  IF a.err # "none"
  THEN Throw(a.c, a.err)
  ELSE NewObject(a.c, provider.useFactory, a.args)

\* lines 124-197: branch on the provider's shape
Produce(c, token, provider, rid, d) ==
  IF provider.type = "value"
  THEN Ret(c, provider.useValue)
  ELSE IF provider.type = "factory"
       THEN CallFactory(ResolveParams(c, provider.deps, <<>>, 1, <<>>, d), provider)
       ELSE ResolveClass(c, token, provider.useClass, rid, d)

\* lines 199-207: r is the instance the provider produced
Mirrored(r, token, provider, rid) ==
  IF r.err # "none"
  THEN r
  ELSE Ret(Mirror(r.c, token, provider, rid, r.val), r.val)

\* lines 112-207: provider lookup, production, mirror
FromProvider(c, token, provider, rid, d) ==
  IF provider = NoProvider
  THEN Ret(c, Undefined)
  ELSE Mirrored(Produce(c, token, provider, rid, d), token, provider, rid)

\* lines 103-207: the request bucket first, then the singleton cache, then the provider
FromCaches(c, token, rid, d) ==
  IF token \in DOMAIN c.requestScopedInstances[rid]
  THEN Ret(c, c.requestScopedInstances[rid][token])
  ELSE IF token \in DOMAIN c.instances
       THEN Ret(c, c.instances[token])
       ELSE FromProvider(c, token, getProvider(c, token), rid, d)

\* lines 91-207: the body of the try block of tryResolve
TryBody(c, token, d) ==
  IF d > MaxDepth
  THEN Throw(c, "RangeError")
  ELSE FromCaches(EnsureBucket(c, ActiveRequestId(c)), token, ActiveRequestId(c), d)

\* the error of the eager resolve swallowed by register
EagerSwallowed(r) == Ret(r.c, Undefined)

\* lines 60-63: the eager resolve; register returns nothing
EagerResolved(r) == [c |-> r.c, val |-> Undefined, err |-> r.err]

\* lines 58-63: c is the container after providers.set
ResolveIfEager(c, token) ==
  IF getProviderOptions(c, token).eager
  THEN EagerResolved(resolve(c, token, 0))
  ELSE Ret(c, Undefined)

\* lines 52-64
register(c, token, provider) == ResolveIfEager(SetProvider(c, token, provider), token)

\* lines 217-219: get is tryResolve
get(c, token) == tryResolve(c, token, 0)

\* line 223: `instance !== undefined`
Defined(r) == [r EXCEPT !.val = BoolVal(r.val # Undefined)]

\* lines 221-228
has(c, token) == Defined(tryResolve(c, token, 0))

\* lines 233-235
startRequestContext(c, id) == [c EXCEPT !.requestId = id]

\* lines 240-246
endRequestContext(c) ==
  IF ~Falsy(c.requestId)
  THEN [c EXCEPT
          !.requestScopedInstances = [r \in (DOMAIN @) \ {c.requestId} |-> @[r]],
          !.requestId = NoRequest]
  ELSE c

\* clear that forgets the providers and the singletons but keeps the request buckets
clearKeepsRequests(c) ==
  [c EXCEPT !.instances = EmptyMap, !.providers = <<>>, !.requestId = NoRequest]

\* clear that forgets the providers and keeps every cache
clearKeepsCaches(c) == [c EXCEPT !.providers = <<>>, !.requestId = NoRequest]

\* lines 250-255
clear(c) ==
  [c EXCEPT !.instances = EmptyMap, !.providers = <<>>,
            !.requestScopedInstances = EmptyMap, !.requestId = NoRequest]

----------------------------------------------------------------------------
(* The state machine: one action per public method of Container *)

NoneSeen == [t \in Tokens |-> Undefined]

RECURSIVE IdsOf(_)
\* the identities of the objects a value holds: itself, its arguments, its properties
IdsOf(v) ==
  IF v.kind # "object"
  THEN {}
  ELSE {<<v.cls, v.id>>} \cup UNION { IdsOf(v.args[i]) : i \in DOMAIN v.args }
              \cup UNION { IdsOf(v.props[k]) : k \in DOMAIN v.props }

IdsIn(m) == UNION { IdsOf(m[k]) : k \in DOMAIN m }

\* an object is alive while the container or the caller's record of a call refers to it
Alive ==
  IdsIn(instances) \cup IdsIn(seen) \cup IdsIn(win) \cup IdsOf(last.val)
    \cup UNION { IdsIn(requestScopedInstances[r]) : r \in DOMAIN requestScopedInstances }
    \cup UNION { IdsOf(last.made[i]) : i \in DOMAIN last.made }

Self ==
  [instances |-> instances, providers |-> providers,
   requestScopedInstances |-> requestScopedInstances, requestId |-> requestId,
   used |-> Alive, full |-> FALSE, made |-> <<>>]

Call(op, token, r) ==
  [op |-> op, token |-> token, val |-> r.val, err |-> r.err, made |-> r.c.made]

Commit(c) ==
  /\ ~c.full
  /\ instances' = c.instances
  /\ providers' = c.providers
  /\ requestScopedInstances' = c.requestScopedInstances
  /\ requestId' = c.requestId

\* the first value each token handed out, kept until `reset` forgets it
Note(m, token, r) ==
  IF token \in app.watch /\ r.err = "none" /\ r.val # Undefined /\ m[token] = Undefined
  THEN [m EXCEPT ![token] = r.val]
  ELSE m

Init ==
  /\ instances = EmptyMap
  /\ providers = <<>>
  /\ requestScopedInstances = EmptyMap
  /\ requestId = NoRequest
  /\ app \in Apps
  /\ last = [op |-> "new", token |-> ClassTok("Container"), val |-> Undefined,
             err |-> "none", made |-> <<>>]
  /\ seen = NoneSeen
  /\ win = NoneSeen

\* r is what register returned
Registered(reg, r) ==
  /\ Commit(r.c)
  /\ last' = Call("register", reg.token, r)
  /\ seen' = [t \in Tokens |->
                IF t = reg.token \/ getProvider(r.c, t) # getProvider(Self, t)
                THEN Undefined ELSE seen[t]]
  /\ UNCHANGED <<app, win>>

Register(reg) == Registered(reg, register(Self, reg.token, reg.provider))

\* r is what the lookup `op` returned for the token
LookedUp(op, token, r) ==
  /\ Commit(r.c)
  /\ last' = Call(op, token, r)
  /\ seen' = Note(seen, token, r)
  /\ win' = Note(win, token, r)
  /\ UNCHANGED app

Resolve(token) == LookedUp("resolve", token, resolve(Self, token, 0))

TryResolve(token) == LookedUp("tryResolve", token, tryResolve(Self, token, 0))

Get(token) == LookedUp("get", token, get(Self, token))

\* r is what has returned
Asked(token, r) ==
  /\ Commit(r.c)
  /\ last' = Call("has", token, r)
  /\ UNCHANGED <<app, seen, win>>

Has(token) == Asked(token, has(Self, token))

StartRequestContext(id) ==
  /\ Commit(startRequestContext(Self, id))
  /\ last' = Call("startRequestContext", StrTok(id), Ret(Self, Undefined))
  /\ win' = NoneSeen
  /\ UNCHANGED <<app, seen>>

EndRequestContext ==
  /\ Commit(endRequestContext(Self))
  /\ last' = Call("endRequestContext", ClassTok("Container"), Ret(Self, Undefined))
  /\ win' = NoneSeen
  /\ UNCHANGED <<app, seen>>

Clear ==
  /\ Commit(clear(Self))
  /\ last' = Call("clear", ClassTok("Container"), Ret(Self, Undefined))
  /\ seen' = NoneSeen
  /\ win' = NoneSeen
  /\ UNCHANGED app

Next ==
  \/ \E reg \in app.regs : Register(reg)
  \/ \E token \in app.tokens : Resolve(token)
  \/ \E token \in app.tokens : TryResolve(token)
  \/ \E token \in app.tokens : Get(token)
  \/ \E token \in app.tokens : Has(token)
  \/ \E id \in app.ids : StartRequestContext(id)
  \/ EndRequestContext
  \/ Clear

Spec == Init /\ [][Next]_vars

----------------------------------------------------------------------------
(* Vocabulary of the claims *)

Lookups == {"resolve", "tryResolve", "get"}

\* the last call was a lookup that handed a value to its caller
Returned == last.op \in Lookups /\ last.err = "none" /\ last.val # Undefined

IsClassProvider(p) == p # NoProvider /\ p.type = "class"

\* the scope the class of a class provider declares in its injectable metadata
ClassScope(p) ==
  IF Meta(p.useClass).scope = Unset THEN Singleton ELSE Meta(p.useClass).scope

InAnyBucket(c, token) ==
  \E r \in DOMAIN c.requestScopedInstances : token \in DOMAIN c.requestScopedInstances[r]

InAnyCache(c, token) == token \in DOMAIN c.instances \/ InAnyBucket(c, token)

\* a lookup of the token is answered from a cache, without consulting the provider
Cached(c, token) ==
  \/ token \in DOMAIN c.instances
  \/ /\ ActiveRequestId(c) \in DOMAIN c.requestScopedInstances
     /\ token \in DOMAIN c.requestScopedInstances[ActiveRequestId(c)]

----------------------------------------------------------------------------
(* C1: for a class provider whose class is declared Singleton, once the    *)
(* token has been resolved, every later successful resolve / tryResolve /  *)
(* get of the token returns the identical instance, whatever request       *)
(* contexts were started or ended in between (no clear and no register of  *)
(* the token in between: `seen` forgets the token on both).                *)
C1_SingletonAlwaysSame ==
  ( /\ Returned
    /\ last.token \in app.watch
    /\ IsClassProvider(getProvider(Self, last.token))
    /\ ClassScope(getProvider(Self, last.token)) = Singleton
    /\ seen[last.token] # Undefined )
  => last.val = seen[last.token]

(* C2: for a registered class whose metadata declares Transient scope, two *)
(* consecutive resolve calls of its token return two distinct instances,   *)
(* in every reachable state (inside a request context or outside).         *)
C2_TransientDistinct ==
  \A t \in app.tokens :
    LET p == getProvider(Self, t)
        r1 == resolve(Self, t, 0)
        r2 == resolve(r1.c, t, 0)
    IN ( /\ IsClassProvider(p)
         /\ ClassScope(p) = Transient
         /\ r1.err = "none" /\ r2.err = "none" /\ ~r2.c.full )
       => r1.val # r2.val

(* C3: in every reachable state, a token whose registered provider is      *)
(* Transient-scoped (on the descriptor or in the class metadata) is a key  *)
(* of neither the singleton cache nor any request bucket.                  *)
C3_TransientNeverCached ==
  \A t \in Tokens :
    LET p == getProvider(Self, t)
    IN ( /\ IsClassProvider(p)
         /\ (p.scope = Transient \/ ClassScope(p) = Transient) )
       => ~InAnyCache(Self, t)

(* C4: for a Request-scoped token, all lookups made between one            *)
(* startRequestContext(id) and the next endRequestContext (no other        *)
(* startRequestContext or clear in between: `win` is emptied by the three) *)
(* return the identical instance.                                          *)
C4_RequestSameInContext ==
  ( /\ Returned
    /\ requestId # NoRequest
    /\ last.token \in app.watch
    /\ IsClassProvider(getProvider(Self, last.token))
    /\ ClassScope(getProvider(Self, last.token)) = Request
    /\ win[last.token] # Undefined )
  => last.val = win[last.token]

\* a second resolve inside request "r1" was answered with the object of the first
C4_Witness ==
  /\ last.op = "resolve" /\ last.err = "none"
  /\ last.token = ClassTok("Session")
  /\ getProvider(Self, last.token) = Bare("Session")
  /\ requestId = "r1"
  /\ last.val.kind = "object" /\ last.val.cls = "Session"
  /\ last.made = <<>>
  /\ win[last.token] = last.val

(* C5: for a Request-scoped token resolved inside request context A, after *)
(* endRequestContext followed by startRequestContext with another id,      *)
(* resolve returns an instance distinct from the one returned in A.        *)
C5_NewContextNewInstance ==
  \A t \in app.tokens : \A b \in app.ids :
    LET p == getProvider(Self, t)
        r1 == resolve(Self, t, 0)
        c2 == startRequestContext(endRequestContext(r1.c), b)
        r2 == resolve(c2, t, 0)
    IN ( /\ requestId # NoRequest /\ b # requestId
         /\ IsClassProvider(p) /\ ClassScope(p) = Request
         /\ r1.err = "none" /\ r2.err = "none" /\ ~r2.c.full )
       => r2.val # r1.val

ParamFails(c, cls, i) == resolve(c, getDependencies(cls)[i], 1).err # "none"

\* the call reaches the class branch for an injectable class
ReachesClass(c, t) ==
  /\ IsClassProvider(getProvider(c, t))
  /\ isInjectable(getProvider(c, t).useClass)
  /\ ~Cached(c, t)

\* the call left the token's cache entries as they were in the state
NotAdded(c, t) ==
  /\ t \in DOMAIN c.instances => t \in DOMAIN instances
  /\ \A r \in DOMAIN c.requestScopedInstances :
       t \in DOMAIN c.requestScopedInstances[r] =>
         r \in DOMAIN requestScopedInstances /\ t \in DOMAIN requestScopedInstances[r]

(* C8: when the container instantiates an injectable class that has an    *)
(* optional constructor parameter whose token cannot be resolved (and no   *)
(* required parameter or property that cannot), the resolve succeeds: the  *)
(* instance has undefined at that position and, at the other positions,    *)
(* the resolved dependencies.                                              *)
C8_OptionalParamUndefined ==
  \A t \in Tokens :
    ReachesClass(Self, t) =>
      LET cls == getProvider(Self, t).useClass
          deps == getDependencies(cls)
          r == resolve(Self, t, 0)
      IN ( /\ \E i \in DOMAIN deps : OptionalFlag(cls, i) /\ ParamFails(Self, cls, i)
           /\ \A j \in DOMAIN deps : ParamFails(Self, cls, j) => OptionalFlag(cls, j)
           /\ \A k \in DOMAIN Meta(cls).properties :
                tryResolve(Self, Meta(cls).properties[k].token, 1).val # Undefined
           /\ ~r.c.full )
         => /\ r.err = "none"
            /\ r.val.kind = "object" /\ r.val.cls = cls
            /\ Len(r.val.args) = Len(deps)
            /\ \A j \in DOMAIN deps :
                 IF ParamFails(Self, cls, j)
                 THEN r.val.args[j] = Undefined
                 ELSE /\ r.val.args[j] # Undefined
                      /\ LET again == resolve(r.c, deps[j], 0)
                         IN again.c.made = r.c.made => r.val.args[j] = again.val

\* resolve(UserService) built the object with undefined for the unregistered Logger
\* and the resolved Session
C8_Witness ==
  /\ last.op = "resolve" /\ last.token = ClassTok("UserService") /\ last.err = "none"
  /\ getProvider(Self, ClassTok("Logger")) = NoProvider
  /\ last.val.kind = "object" /\ last.val.cls = "UserService"
  /\ last.val.args[1] = Undefined
  /\ last.val.args[2].kind = "object" /\ last.val.args[2].cls = "Session"
  /\ \E k \in DOMAIN last.made : last.made[k] = last.val

(* C9: when the container instantiates an injectable class that has a      *)
(* required constructor parameter whose token cannot be resolved, the      *)
(* resolution fails entirely: tryResolve returns undefined, resolve        *)
(* raises, the constructor is not invoked and the token is added to        *)
(* neither the singleton cache nor a request bucket.                       *)
C9_RequiredParamFails ==
  \A t \in Tokens :
    ReachesClass(Self, t) =>
      LET cls == getProvider(Self, t).useClass
          deps == getDependencies(cls)
          r == resolve(Self, t, 0)
          q == tryResolve(Self, t, 0)
      IN (\E i \in DOMAIN deps : ~OptionalFlag(cls, i) /\ ParamFails(Self, cls, i))
         => /\ r.err = "Unresolvable"
            /\ q.err = "none" /\ q.val = Undefined
            /\ \A c \in {r.c, q.c} :
                 /\ \A k \in DOMAIN c.made : c.made[k].cls # cls
                 /\ NotAdded(c, t)

\* tryResolve(UserService) returned undefined with Session unregistered
C9_Witness ==
  /\ last.op = "tryResolve" /\ last.token = ClassTok("UserService")
  /\ last.val = Undefined
  /\ getProvider(Self, last.token) = Bare("UserService")
  /\ getProvider(Self, ClassTok("Session")) = NoProvider
  /\ ~InAnyCache(Self, last.token)

(* C10: when register is called with a provider marked eager (the eager    *)
(* flag of the descriptor, or eager in the class's injectable metadata),   *)
(* right after register returns the singleton cache holds an instance for  *)
(* the registered token.                                                   *)
C10_EagerInSingletonCache ==
  ( /\ last.op = "register" /\ last.err = "none"
    /\ LET p == getProvider(Self, last.token)
       IN p.eager \/ (p.type = "class" /\ getInjectableOptions(p.useClass).eager) )
  => last.token \in DOMAIN instances

\* the value is one the provider produces: the stored value, an object of the
\* provider's class, or the result of its factory
ProducedBy(p, v) ==
  CASE p.type = "value"   -> v = p.useValue
    [] p.type = "class"   -> v.kind = "object" /\ v.cls = p.useClass
    [] p.type = "factory" -> v.kind = "object" /\ v.cls = p.useFactory
    [] OTHER              -> FALSE

(* C11: the last register call for a token wins: in every reachable state  *)
(* the provider table holds one entry for a registered token, the provider *)
(* of its last register, and a resolve of the token that succeeds returns  *)
(* a value produced by that provider, not one produced by a provider the   *)
(* token was registered with before.                                       *)
C11_LastRegisterWins ==
  \A t \in app.tokens :
    HasExact(Self, t) =>
      LET r == resolve(Self, t, 0)
      IN /\ Cardinality({ i \in DOMAIN providers : providers[i].key = t }) = 1
         /\ last.op = "register" /\ last.token = t =>
              \E reg \in app.regs : reg.token = t /\ reg.provider = getProvider(Self, t)
         /\ r.err = "none" => ProducedBy(getProvider(Self, t), r.val)

(* C12: for a token registered with a value provider, resolve returns      *)
(* exactly the stored value, on every call and in every request context,   *)
(* and constructs nothing.                                                 *)
C12_ValueProviderExact ==
  \A t \in app.tokens :
    LET p == getProvider(Self, t)
        r == resolve(Self, t, 0)
    IN (p # NoProvider /\ p.type = "value") =>
         /\ r.err = "none"
         /\ r.val = p.useValue
         /\ r.c.made = <<>>

\* the objects of a class constructed during a call
MadeOf(c, cls) == { k \in DOMAIN c.made : c.made[k].cls = cls }

(* C13: for a factory provider with a deps list, on a lookup that consults *)
(* the provider (the token is not answered from a cache): if a listed      *)
(* dependency cannot be resolved, the factory is not invoked, tryResolve   *)
(* returns undefined, resolve raises and the token is added to no cache;   *)
(* when all resolve, the factory is invoked once, with the resolved values *)
(* in the order of the deps list.                                          *)
C13_FactoryDeps ==
  \A t \in app.tokens :
    LET p == getProvider(Self, t)
    IN (p # NoProvider /\ p.type = "factory" /\ ~Cached(Self, t)) =>
         LET r == resolve(Self, t, 0)
             q == tryResolve(Self, t, 0)
         IN IF \E i \in DOMAIN p.deps : resolve(Self, p.deps[i], 1).err # "none"
            THEN /\ r.err = "Unresolvable"
                 /\ q.err = "none" /\ q.val = Undefined
                 /\ \A c \in {r.c, q.c} : MadeOf(c, p.useFactory) = {} /\ NotAdded(c, t)
            ELSE ~r.c.full =>
                 /\ r.err = "none"
                 /\ Cardinality(MadeOf(r.c, p.useFactory)) = 1
                 /\ \A k \in MadeOf(r.c, p.useFactory) : r.c.made[k] = r.val
                 /\ Len(r.val.args) = Len(p.deps)
                 /\ \A j \in DOMAIN p.deps :
                      LET again == resolve(r.c, p.deps[j], 0)
                      IN again.c.made = r.c.made => r.val.args[j] = again.val

\* resolve("CONFIG") raised while the factory's dependency Logger had no provider
C13_Witness ==
  /\ last.op = "resolve" /\ last.token = StrTok("CONFIG")
  /\ last.err = "Unresolvable" /\ last.made = <<>>
  /\ getProvider(Self, last.token).type = "factory"
  /\ getProvider(Self, ClassTok("Logger")) = NoProvider
  /\ ~InAnyCache(Self, last.token)

\* resolve("CONFIG") called the factory with the resolved Logger
C13_WitnessCalled ==
  /\ last.op = "resolve" /\ last.token = StrTok("CONFIG") /\ last.err = "none"
  /\ last.val.kind = "object" /\ last.val.cls = "fetchConfig"
  /\ last.val.args = <<instances[ClassTok("Logger")]>>
  /\ \E k \in DOMAIN last.made : last.made[k] = last.val

\* the container holds nothing: no provider, no instance, no bucket, no request
Blank(c) ==
  /\ c.providers = <<>>
  /\ c.instances = EmptyMap
  /\ c.requestScopedInstances = EmptyMap
  /\ c.requestId = NoRequest

(* C14: clear is a full reset from every reachable state: afterwards the   *)
(* provider table, the singleton cache and every request bucket are empty  *)
(* and no request id is active; has(t) is false and resolve(t) raises      *)
(* not-registered for every token t; and a token registered again resolves *)
(* to a fresh instance, constructed after the clear and sharing no object  *)
(* with what was alive before it.                                          *)
C14_ClearResets ==
  /\ last.op = "clear" => Blank(Self)
  /\ LET c == clear(Self)
     IN /\ Blank(c)
        /\ \A t \in Tokens :
             /\ has(c, t).val = BoolVal(FALSE)
             /\ resolve(c, t, 0).err = "NotRegistered"
        /\ \A reg \in app.regs :
             LET r == resolve(register(c, reg.token, reg.provider).c, reg.token, 0)
             IN (r.err = "none" /\ r.val.kind = "object" /\ ~r.c.full) =>
                  /\ \E k \in DOMAIN r.c.made : r.c.made[k] = r.val
                  /\ IdsOf(r.val) \cap Alive = {}

\* a state with providers, singletons, a bucket of an active request: clear wipes
\* them, and Session registered again resolves to an object that was not alive
C14_Witness ==
  /\ providers # <<>> /\ requestId = "r1"
  /\ "r1" \in DOMAIN requestScopedInstances
  /\ ClassTok("Session") \in DOMAIN requestScopedInstances["r1"]
  /\ requestScopedInstances["r1"][ClassTok("Session")].kind = "object"
  /\ Blank(clear(Self))
  /\ LET r == resolve(register(clear(Self), ClassTok("Session"), Bare("Session")).c,
                      ClassTok("Session"), 0)
     IN r.err = "none" /\ r.val # requestScopedInstances["r1"][ClassTok("Session")]

(* C15: has(token) checks whether the token is registered: in every        *)
(* reachable state and for every token, has returns true exactly when the  *)
(* provider table has a provider for the token.                            *)
C15_HasIffRegistered ==
  \A t \in Tokens :
    has(Self, t).val = BoolVal(getProvider(Self, t) # NoProvider)

\* the classes the constructor parameters of cls lead to, through class providers
\* registered under the parameters' tokens, in at most n steps
RECURSIVE Needs(_, _, _)
Needs(c, cls, n) ==
  IF n = 0
  THEN {}
  ELSE LET direct == { getProvider(c, getDependencies(cls)[i]).useClass :
                         i \in { j \in DOMAIN getDependencies(cls) :
                                   IsClassProvider(getProvider(c, getDependencies(cls)[j])) } }
       IN direct \cup UNION { Needs(c, k, n - 1) : k \in direct }

(* C16: circular dependencies can be resolved: when the registered         *)
(* injectable classes A and B need each other through their constructor    *)
(* parameters and both are registered, resolve(A) terminates and returns    *)
(* an instance of A.                                                       *)
C16_CircularResolves ==
  \A t \in app.tokens :
    LET p == getProvider(Self, t)
    IN ( /\ IsClassProvider(p) /\ isInjectable(p.useClass)
         /\ p.useClass \in Needs(Self, p.useClass, 2)
         /\ \A i \in DOMAIN getDependencies(p.useClass) :
              getProvider(Self, getDependencies(p.useClass)[i]) # NoProvider )
       => LET r == resolve(Self, t, 0)
          IN r.err = "none" /\ r.val.kind = "object" /\ r.val.cls = p.useClass

(* C17: a constructor parameter annotated with @Inject(token) is resolved  *)
(* from that token: when the container instantiates the class, the         *)
(* argument at that position is the result of resolving the @Inject token. *)
C17_InjectTokenUsed ==
  \A t \in app.tokens :
    ReachesClass(Self, t) =>
      LET cls == getProvider(Self, t).useClass
          r == resolve(Self, t, 0)
      IN (r.err = "none" /\ ~r.c.full) =>
           \A i \in DOMAIN Meta(cls).paramtypes :
             LET again == resolve(r.c, Meta(cls).paramtypes[i], 0)
             IN again.err = "none" => r.val.args[i] = again.val

(* C18: for a registered token, resolve raises the unresolvable error      *)
(* exactly when tryResolve yields undefined, and otherwise returns the     *)
(* value tryResolve yields; a class provider whose class is not marked     *)
(* injectable (consulted: the token is not answered from a cache) makes    *)
(* tryResolve return undefined and resolve raise unresolvable, and the     *)
(* not-injectable error never reaches the caller of resolve.               *)
C18_ResolveFollowsTryResolve ==
  \A t \in Tokens :
    LET p == getProvider(Self, t)
        r == resolve(Self, t, 0)
        q == tryResolve(Self, t, 0)
    IN p # NoProvider =>
         /\ q.err = "none"
         /\ r.err \in {"none", "Unresolvable"}
         /\ (r.err = "Unresolvable") <=> (q.val = Undefined)
         /\ r.err = "none" => r.val = q.val /\ r.val # Undefined
         /\ r.c = q.c
         /\ (IsClassProvider(p) /\ ~isInjectable(p.useClass) /\ ~Cached(Self, t)) =>
              /\ TryBody(Self, t, 0).err = "NotInjectable"
              /\ q.val = Undefined
              /\ r.err = "Unresolvable"

\* resolve(Plain) raised unresolvable: Plain is registered and not injectable
C18_Witness ==
  /\ last.op = "resolve" /\ last.token = ClassTok("Plain")
  /\ last.err = "Unresolvable"
  /\ getProvider(Self, last.token) = Bare("Plain")
  /\ TryBody(Self, last.token, 0).err = "NotInjectable"

(* C19: a factory provider registered without a scope behaves as a         *)
(* singleton: once its token has been resolved, every later successful     *)
(* lookup of the token returns that one result, across any sequence of     *)
(* startRequestContext / endRequestContext (until clear or a register of   *)
(* the token: `seen` forgets the token on both).                           *)
C19_FactorySingleton ==
  ( /\ Returned
    /\ last.token \in app.watch
    /\ getProvider(Self, last.token).type = "factory"
    /\ getProvider(Self, last.token).scope = Unset
    /\ seen[last.token] # Undefined )
  => /\ last.val = seen[last.token]
     /\ last.made = <<>> \/ last.made = <<seen[last.token]>>

\* the identities of the objects the caches of the container refer to
CachedIds(c) ==
  IdsIn(c.instances)
    \cup UNION { IdsIn(c.requestScopedInstances[r]) : r \in DOMAIN c.requestScopedInstances }

\* the application registers the class under one token, with one provider
RegisteredOnce(cls) ==
  \E reg \in app.regs :
    /\ reg.provider = Bare(cls)
    /\ \A other \in app.regs :
         (other.token = reg.token \/ (other.provider.type = "class"
                                       /\ other.provider.useClass = cls)) => other = reg

(* C20: a Singleton-scoped class registered once is instantiated at most   *)
(* once until clear, whichever way it is reached (its class token, a       *)
(* string token equal to its name, a dependency of another class or of a   *)
(* factory) and in whichever request context: in every reachable state the *)
(* caches refer to at most one object of the class.                        *)
C20_SingletonInstantiatedOnce ==
  \A cls \in { reg.provider.useClass : reg \in { x \in app.regs : x.provider.type = "class" } } :
    ( /\ isInjectable(cls)
      /\ ScopeOf(getInjectableOptions(cls)) = Singleton
      /\ RegisteredOnce(cls) )
    => Cardinality({ id \in CachedIds(Self) : id[1] = cls }) <= 1

\* a container differs from another in its request buckets and request id at most
SameBut(c, d, gone) ==
  /\ c.providers = d.providers
  /\ c.instances = d.instances
  /\ DOMAIN c.requestScopedInstances = (DOMAIN d.requestScopedInstances) \ gone
  /\ \A r \in DOMAIN c.requestScopedInstances :
       c.requestScopedInstances[r] = d.requestScopedInstances[r]

(* C21: endRequestContext, for any active request id string, removes       *)
(* exactly that id's bucket and sets the active id to none, leaving the    *)
(* provider table, the singleton cache and all other buckets unchanged;    *)
(* when no request id is active it changes nothing.                        *)
C21_EndRemovesActiveBucket ==
  LET c == endRequestContext(Self)
  IN IF requestId # NoRequest
     THEN c.requestId = NoRequest /\ SameBut(c, Self, {requestId})
     ELSE c = Self

(* C22: request contexts do not stack: after startRequestContext(a), a     *)
(* lookup, startRequestContext(b), a lookup and endRequestContext(), no    *)
(* request id is active (a is not restored), lookups use the default       *)
(* bucket, b's bucket is discarded and a's bucket is not.                  *)
C22_ContextsDoNotStack ==
  \A a \in app.ids : \A b \in app.ids \ {a} : \A t \in app.tokens :
    LET inA == tryResolve(startRequestContext(Self, a), t, 0).c
        inB == tryResolve(startRequestContext(inA, b), t, 0).c
        c == endRequestContext(inB)
    IN (ActiveRequestId(inA) # ActiveRequestId(inB)) =>
         /\ c.requestId = NoRequest
         /\ ActiveRequestId(c) = "default"
         /\ ActiveRequestId(inB) \notin DOMAIN c.requestScopedInstances
         /\ ActiveRequestId(inA) \in DOMAIN c.requestScopedInstances
         /\ c.requestScopedInstances[ActiveRequestId(inA)]
              = inB.requestScopedInstances[ActiveRequestId(inA)]

\* the bucket of the request id active in c has an entry for the token
HasInActiveBucket(c, t) ==
  /\ ActiveRequestId(c) \in DOMAIN c.requestScopedInstances
  /\ t \in DOMAIN c.requestScopedInstances[ActiveRequestId(c)]

\* the bucket of the request id active in c maps the token to the value
InActiveBucket(c, t, v) ==
  /\ ActiveRequestId(c) \in DOMAIN c.requestScopedInstances
  /\ t \in DOMAIN c.requestScopedInstances[ActiveRequestId(c)]
  /\ c.requestScopedInstances[ActiveRequestId(c)][t] = v

(* C23 as stated: after any successful tryResolve of a token whose         *)
(* provider descriptor does not declare Transient scope, the bucket of the *)
(* active request id maps the token to the returned instance, and the next *)
(* tryResolve under the same request id returns it.                        *)
C23_MirroredAlways ==
  \A t \in app.tokens :
    LET p == getProvider(Self, t)
        q == tryResolve(Self, t, 0)
    IN (p # NoProvider /\ p.scope # Transient /\ q.val # Undefined /\ ~q.c.full) =>
         /\ InActiveBucket(q.c, t, q.val)
         /\ tryResolve(q.c, t, 0).val = q.val

(* C23 amended: the same, except that a tryResolve answered from the       *)
(* singleton cache (the token is a key of the singleton cache and not of   *)
(* the active bucket) returns the singleton without mirroring it: the      *)
(* active bucket then has no entry for the token, and the next tryResolve  *)
(* returns the instance from the singleton cache again.                    *)
C23_MirroredWhenProduced ==
  \A t \in app.tokens :
    LET p == getProvider(Self, t)
        q == tryResolve(Self, t, 0)
        again == tryResolve(q.c, t, 0)
    IN (p # NoProvider /\ p.scope # Transient /\ q.val # Undefined /\ ~q.c.full) =>
         /\ again.val = q.val /\ again.c = q.c
         /\ IF t \in DOMAIN instances /\ ~HasInActiveBucket(Self, t)
            THEN /\ q.val = instances[t]
                 /\ t \notin DOMAIN q.c.requestScopedInstances[ActiveRequestId(q.c)]
            ELSE InActiveBucket(q.c, t, q.val)

\* inside request "r1", tryResolve(Logger) was answered from the singleton cache:
\* the bucket of "r1" has no entry for the token
C23_Witness ==
  /\ last.op = "tryResolve" /\ last.token = ClassTok("Logger")
  /\ last.val.kind = "object" /\ last.made = <<>>
  /\ requestId = "r1"
  /\ getProvider(Self, last.token) = Bare("Logger")
  /\ instances[last.token] = last.val
  /\ ~HasInActiveBucket(Self, last.token)

\* the places of the provider table keyed by a class that bears the name
ClassesNamed(c, name) ==
  { i \in DOMAIN c.providers :
      c.providers[i].key.kind = "class" /\ c.providers[i].key.name = name }

(* C24: provider lookup for a string token uses the exact registration     *)
(* when one exists; otherwise the provider of a class-keyed registration   *)
(* whose class name equals the string exactly, the first in the order of   *)
(* the provider table when several classes bear the name; symbol and class *)
(* tokens never match by name.                                             *)
C24_ProviderLookup ==
  \A t \in Tokens :
    LET found == getProvider(Self, t)
        exact == { i \in DOMAIN providers : providers[i].key = t }
        named == ClassesNamed(Self, t.name)
    IN /\ exact # {} => \A i \in exact : found = providers[i].provider
       /\ (exact = {} /\ t.kind # "string") => found = NoProvider
       /\ (exact = {} /\ t.kind = "string" /\ named = {}) => found = NoProvider
       /\ (exact = {} /\ t.kind = "string" /\ named # {}) =>
            \E i \in named : /\ \A j \in named : i <= j
                              /\ found = providers[i].provider

\* resolve("Logger") gave an instance of the class registered first under that
\* name, with a second class of the name in the table and no exact registration
C24_Witness ==
  /\ last.op = "resolve" /\ last.token = StrTok("Logger") /\ last.err = "none"
  /\ Len(providers) = 2
  /\ providers[1].key = ClassIn("legacy", "Logger")
  /\ providers[2].key = ClassTok("Logger")
  /\ last.val.kind = "object" /\ last.val.cls = "legacy/Logger"
  /\ getProvider(Self, SymTok("Logger")) = NoProvider
  /\ getProvider(Self, StrTok("logger")) = NoProvider

\* the tryResolve of injected property k of the class gives undefined
PropertyFails(c, cls, k) ==
  tryResolve(c, Meta(cls).properties[k].token, 1).val = Undefined

(* C25: property injection during class resolution: an injected property   *)
(* whose token resolves is assigned to the instance; one that does not     *)
(* resolve and is optional is left unset and the resolution succeeds; one  *)
(* that does not resolve and is not optional makes the whole resolution    *)
(* fail (tryResolve undefined, resolve raises) with the constructed        *)
(* instance stored in no cache.                                            *)
C25_PropertyInjection ==
  \A t \in app.tokens :
    ( /\ ReachesClass(Self, t)
      /\ Meta(getProvider(Self, t).useClass).properties # <<>>
      /\ \A i \in DOMAIN getDependencies(getProvider(Self, t).useClass) :
           ~ParamFails(Self, getProvider(Self, t).useClass, i) ) =>
      LET cls == getProvider(Self, t).useClass
          props == Meta(cls).properties
          r == resolve(Self, t, 0)
          q == tryResolve(Self, t, 0)
      IN IF \E k \in DOMAIN props : PropertyFails(Self, cls, k) /\ ~props[k].optional
         THEN /\ r.err = "Unresolvable"
              /\ q.err = "none" /\ q.val = Undefined
              /\ NotAdded(r.c, t) /\ NotAdded(q.c, t)
         ELSE ~r.c.full =>
              /\ r.err = "none"
              /\ r.val.kind = "object" /\ r.val.cls = cls
              /\ \A k \in DOMAIN props :
                   IF PropertyFails(Self, cls, k)
                   THEN props[k].key \notin DOMAIN r.val.props
                   ELSE /\ props[k].key \in DOMAIN r.val.props
                        /\ r.val.props[props[k].key] # Undefined

\* the tokens that are keys of the singleton cache or of a request bucket
CachedTokens(c) ==
  (DOMAIN c.instances)
    \cup UNION { DOMAIN c.requestScopedInstances[r] : r \in DOMAIN c.requestScopedInstances }

(* C26: in every reachable state, every token that is a key of the         *)
(* singleton cache or of a request bucket has a provider that lookup finds *)
(* in the provider table.                                                  *)
C26_CachedTokensRegistered ==
  \A t \in CachedTokens(Self) : getProvider(Self, t) # NoProvider

\* has(token) built an instance: the token is a key of the singleton cache and of
\* a bucket, and lookup finds its provider
C26_Witness ==
  /\ last.op = "has" /\ last.val = BoolVal(TRUE) /\ last.made # <<>>
  /\ last.token \in DOMAIN instances
  /\ InAnyBucket(Self, last.token)
  /\ getProvider(Self, last.token) # NoProvider

(* C27: in every reachable state, if a token is present both in the        *)
(* singleton cache and in some request bucket, both entries are the same   *)
(* instance.                                                               *)
C27_BucketAgreesWithSingleton ==
  \A t \in DOMAIN instances : \A r \in DOMAIN requestScopedInstances :
    t \in DOMAIN requestScopedInstances[r] => requestScopedInstances[r][t] = instances[t]

(* C28: when register is called for a class whose metadata declares eager  *)
(* and the immediate resolution fails, register raises the resolve error   *)
(* to its caller, the new provider stays in the provider table, and no     *)
(* instance is cached for the token.                                       *)
C28_EagerFailureRaises ==
  \A reg \in app.regs :
    LET r == register(Self, reg.token, reg.provider)
        tried == resolve(SetProvider(Self, reg.token, reg.provider), reg.token, 0)
    IN ( /\ reg.provider.type = "class"
         /\ getInjectableOptions(reg.provider.useClass).eager
         /\ tried.err # "none" )
       => /\ r.err = tried.err
          /\ getProvider(r.c, reg.token) = reg.provider
          /\ HasExact(r.c, reg.token)
          /\ ~InAnyCache(r.c, reg.token)

\* register(Startup, Startup) raised: Startup is eager and its Logger has no provider
C28_Witness ==
  /\ last.op = "register" /\ last.token = ClassTok("Startup")
  /\ last.err = "Unresolvable"
  /\ getProvider(Self, ClassTok("Logger")) = NoProvider
  /\ getProvider(Self, last.token) = Bare("Startup")
  /\ ~InAnyCache(Self, last.token)

(* C29: instances cached while no request context is active (the default   *)
(* bucket) are never discarded by endRequestContext, for any               *)
(* startRequestContext(id) / endRequestContext with any id string: a       *)
(* Request-scoped token resolved with no context active resolves to the    *)
(* same instance when no context is active again.                          *)
C29_DefaultBucketKept ==
  \A t \in app.tokens : \A id \in app.ids :
    LET p == getProvider(Self, t)
        r1 == resolve(Self, t, 0)
        c == endRequestContext(startRequestContext(r1.c, id))
        r2 == resolve(c, t, 0)
    IN ( /\ requestId = NoRequest
         /\ IsClassProvider(p) /\ ClassScope(p) = Request
         /\ r1.err = "none" )
       => /\ "default" \in DOMAIN c.requestScopedInstances
          /\ c.requestScopedInstances["default"] = r1.c.requestScopedInstances["default"]
          /\ c.requestId = NoRequest => (r2.err = "none" /\ r2.val = r1.val)

(* C30: a Singleton class with a Request-scoped constructor dependency     *)
(* captures the dependency instance of the request context in which the    *)
(* singleton was first resolved: after that context ends and another       *)
(* begins, resolve of the singleton returns the same singleton holding the *)
(* first context's dependency instance, while resolve of the dependency    *)
(* token in the new context returns a different instance.                  *)
C30_CaptiveDependency ==
  \A t \in app.tokens : \A b \in app.ids \ {requestId} :
    LET p == getProvider(Self, t)
        first == resolve(Self, t, 0)
        c == startRequestContext(endRequestContext(first.c), b)
        later == resolve(c, t, 0)
    IN ( /\ requestId # NoRequest
         /\ ReachesClass(Self, t) /\ ClassScope(p) = Singleton
         /\ first.err = "none" /\ later.err = "none" )
       => \A i \in DOMAIN getDependencies(p.useClass) :
            LET dep == getDependencies(p.useClass)[i]
                q == getProvider(Self, dep)
                inB == resolve(later.c, dep, 0)
            IN ( /\ IsClassProvider(q) /\ ClassScope(q) = Request
                 /\ first.val.args[i] # Undefined
                 /\ inB.err = "none" /\ ~inB.c.full )
               => /\ later.val = first.val
                  /\ later.val.args[i] = first.val.args[i]
                  /\ inB.val # first.val.args[i]

====
